---- MODULE Spec2Model ----
(***************************************************************************)
(* Model of the private blockchain: class Block (src/src/block.js) and     *)
(* class Blockchain (src/unnamed/part_000).                                *)
(*                                                                         *)
(* A Block object is a record of its five fields plus `ref`, the identity  *)
(* of the JavaScript object (two Block objects with equal fields are still *)
(* two objects).  The chain is the array this.chain, 1-based here: the     *)
(* block at JavaScript index i is chain[i + 1].                            *)
(*                                                                         *)
(* Values: null is the empty sequence Null.  A SHA256 digest is the        *)
(* one-element sequence holding the text that was hashed, so that two      *)
(* digests are equal exactly when the hashed texts are equal (the digest   *)
(* is deterministic and collision free).  Strings that are always ASCII    *)
(* (addresses, the registry suffix) are atoms; a star is a sequence of     *)
(* Unicode code points, so that the hex encoding of the body and its       *)
(* decoding by hex2ascii are computed byte by byte.                        *)
(***************************************************************************)
EXTENDS Integers, Sequences, FiniteSets, TLC

\* ---------------------------------------------------------------- bounds
MaxChain == 3       \* blocks the chain may hold in the model
StartTime == 1000   \* clock (Unix seconds) when the Blockchain is constructed
MaxTicks == 1       \* seconds the clock may advance after construction
MaxTamper == 1      \* external modifications of a block (SpecTamper only)
MaxFaults == 1      \* digest computations that throw (SpecFault only)
MaxTasks == 2       \* validateChain calls in progress at once (SpecAsync only)

Addresses == {"addrA", "addrB"}
\* stars as code point sequences: "S" (ASCII) and "e-acute" (U+00E9)
Stars == {<<83>>, <<233>>}
\* ages, in seconds, of the challenge messages a caller may submit
Elapsed == {299, 300, 301}

VARIABLES
    chain,      \* this.chain
    height,     \* this.height
    now,        \* the wall clock, in Unix seconds
    nextRef,    \* identity given to the next Block object constructed
    tampers,    \* number of external modifications made so far
    last,       \* the last call made on the Blockchain, and what it returned
    tasks       \* the validateChain calls suspended at an await

vars == <<chain, height, now, nextRef, tampers, last, tasks>>

Null == <<>>

\* ------------------------------------------------------------ block.js
\* JSON.stringify of a payload object: the JSON text, kept structured.
JSONstringifyData(data) == [json |-> data]

\* UTF-8 bytes of one code point (Buffer.from(string) encodes as UTF-8).
Utf8Char(c) == IF c < 128 THEN <<c>> ELSE <<192 + (c \div 64), 128 + (c % 64)>>

RECURSIVE Utf8String(_)
Utf8String(s) == IF s = <<>> THEN <<>> ELSE Utf8Char(Head(s)) \o Utf8String(Tail(s))

\* Buffer.from(text).toString('hex'): the bytes of the text, two hex digits
\* each.  Only a star can hold non-ASCII characters.
BufferToHex(text) ==
    [hex |-> IF "json" \in DOMAIN text /\ "star" \in DOMAIN text.json
             THEN [json |-> [text.json EXCEPT !.star = Utf8String(@)]]
             ELSE text]

\* hex2ascii: every byte becomes the character with that code (zero bytes
\* and unreadable digit pairs are dropped).
RECURSIVE BytesToChars(_)
BytesToChars(bs) ==
    IF bs = <<>> THEN <<>>
    ELSE IF Head(bs) = 0 THEN BytesToChars(Tail(bs))
         ELSE <<Head(bs)>> \o BytesToChars(Tail(bs))

hex2ascii(body) ==
    IF "hex" \notin DOMAIN body THEN [raw |-> "empty"]
    ELSE IF "json" \in DOMAIN body.hex /\ "star" \in DOMAIN body.hex.json
         THEN [json |-> [body.hex.json EXCEPT !.star = BytesToChars(@)]]
         ELSE body.hex

\* JSON.parse: the object a JSON text denotes; any other text throws.
JSONparse(text) ==
    IF "json" \in DOMAIN text
    THEN [ok |-> TRUE, value |-> text.json]
    ELSE [ok |-> FALSE, value |-> [error |-> "SyntaxError"]]

\* new Block(data), as the object with identity ref.
Block(data, ref) ==
    [ref |-> ref,
     hash |-> Null,
     height |-> 0,
     body |-> BufferToHex(JSONstringifyData(data)),
     time |-> 0,
     previousBlockHash |-> Null]

\* JSON.stringify of a Block: its own fields, in the order the constructor
\* created them.
JSONstringifyBlock(b) ==
    [hash |-> b.hash, height |-> b.height, body |-> b.body, time |-> b.time,
     previousBlockHash |-> b.previousBlockHash]

SHA256(text) == <<text>>

\* In a call, the SHA256 computations are numbered from 0 in the order they
\* are made; failAt is the number of the one that throws, NoFault if none.
NoFault == -1

\* validate() without step "self.hash = null": the digest covers the stored hash
validate_hashNotCleared(b, throws) ==
    [value |-> (b.hash = SHA256(JSONstringifyBlock(b))), threw |-> FALSE, block |-> b]

\* validate() that leaves the hash cleared when the block is valid
validate_noRestore(b, throws) ==
    LET cleared == [b EXCEPT !.hash = Null]
        valid == (b.hash = SHA256(JSONstringifyBlock(cleared)))
    IN [value |-> valid, threw |-> FALSE, block |-> IF valid THEN cleared ELSE b]

\* Block.validate(): the value the promise resolves with, or threw when the
\* digest computation throws and the promise rejects, and the block as the
\* call leaves it.  The catch does not restore the hash.
validate(b, throws) ==
    LET currentHash == b.hash
        cleared == [b EXCEPT !.hash = Null]
        calculatedHash == SHA256(JSONstringifyBlock(cleared))
    IN IF throws
       THEN [value |-> FALSE, threw |-> TRUE, block |-> cleared]
       ELSE [value |-> (currentHash = calculatedHash), threw |-> FALSE,
             block |-> [cleared EXCEPT !.hash = currentHash]]

\* getBData() without the test of self.height
getBData_noGenesisTest(b) ==
    LET parsed == JSONparse(hex2ascii(b.body))
    IN IF ~parsed.ok THEN [kind |-> "rejected", value |-> parsed.value]
       ELSE [kind |-> "resolved", value |-> parsed.value]

\* getBData() that resolves with an empty object when the body cannot be parsed
getBData_swallow(b) ==
    LET parsed == JSONparse(hex2ascii(b.body))
    IN IF ~parsed.ok THEN [kind |-> "resolved", value |-> [unreadable |-> TRUE]]
       ELSE IF b.height = 0
            THEN [kind |-> "rejected", value |-> [error |-> "this is the Genesis block"]]
            ELSE [kind |-> "resolved", value |-> parsed.value]

\* Block.getBData(): how the promise settles.
getBData(b) ==
    LET decodedData == hex2ascii(b.body)
        parsed == JSONparse(decodedData)
    IN IF ~parsed.ok THEN [kind |-> "rejected", value |-> parsed.value]
       ELSE IF b.height = 0
            THEN [kind |-> "rejected", value |-> [error |-> "this is the Genesis block"]]
            ELSE [kind |-> "resolved", value |-> parsed.value]

\* -------------------------------------------------- Blockchain (part_000)
GenesisData == [data |-> "Genesis Block"]

\* the ReferenceError raised by the assignment to the undeclared name
\* chainValidtion, as validateChain's catch returns it
ReferenceError == [kind |-> "error", name |-> "ReferenceError"]

\* the error thrown by a failing digest computation, as a catch returns it
DigestError == [kind |-> "error", name |-> "DigestError"]

\* validateChain's loop from JavaScript index i on, with chainValidation cv.
\* The digest of the block at index i is computation number i.
RECURSIVE validateChainLoop(_, _, _, _)
validateChainLoop(c, i, cv, failAt) ==
    IF i >= Len(c) THEN [chain |-> c, value |-> cv]
    ELSE LET v == validate(c[i + 1], failAt = i)
             c1 == [c EXCEPT ![i + 1] = v.block]
             blockErrors == [blockHeight |-> i,
                             isBlockValid |-> IF v.value # TRUE THEN "false" ELSE "null",
                             isPreviousHashValid |-> "null"]
             cv1 == IF v.value # TRUE THEN [cv EXCEPT !.isChainValid = FALSE] ELSE cv
             isPreviousHashValid ==
                 IF i > 0 THEN c1[i + 1].previousBlockHash = c1[i].hash ELSE TRUE
         IN IF v.threw
            THEN [chain |-> c1, value |-> DigestError]
            ELSE IF i > 0 /\ isPreviousHashValid # TRUE
            THEN [chain |-> c1, value |-> ReferenceError]
            ELSE validateChainLoop(c1, i + 1,
                                   [cv1 EXCEPT !.errorLog = Append(@, blockErrors)],
                                   failAt)

\* validateChain(): the value returned and the chain as the call leaves it.
validateChain(c, failAt) ==
    validateChainLoop(c, 0, [kind |-> "report", isChainValid |-> TRUE, errorLog |-> <<>>],
                      failAt)

\* what _addBlock yields once the new block, as object nb, has been pushed
\* onto c: computation 0 was the digest of the new block, so validateChain's
\* computations are numbered from 1
addBlockPushed(c, nb, failAt) ==
    LET newChainValidation ==
            validateChain(Append(c, nb), IF failAt > 0 THEN failAt - 1 ELSE NoFault)
    IN [chain |-> newChainValidation.chain,
        value |-> newChainValidation.chain[Len(c) + 1],
        newBlock |-> newChainValidation.chain[Len(c) + 1],
        failed |-> FALSE]

\* _addBlock without the assignment of previousBlockHash
_addBlock_noPreviousHash(c, newBlock, t, failAt) ==
    LET b1 == [newBlock EXCEPT !.height = Len(c), !.time = t]
        b3 == [b1 EXCEPT !.hash = SHA256(JSONstringifyBlock(b1))]
    IN addBlockPushed(c, b3, failAt)

\* _addBlock without the assignment of height
_addBlock_noHeight(c, newBlock, t, failAt) ==
    LET b1 == [newBlock EXCEPT !.time = t]
        b2 == IF Len(c) > 0
              THEN [b1 EXCEPT !.previousBlockHash = c[Len(c)].hash]
              ELSE b1
        b3 == [b2 EXCEPT !.hash = SHA256(JSONstringifyBlock(b2))]
    IN addBlockPushed(c, b3, failAt)

\* _addBlock that pushes the block before it computes the hash
_addBlock_pushFirst(c, newBlock, t, failAt) ==
    LET b1 == [newBlock EXCEPT !.height = Len(c), !.time = t]
        b2 == IF Len(c) > 0
              THEN [b1 EXCEPT !.previousBlockHash = c[Len(c)].hash]
              ELSE b1
        b3 == [b2 EXCEPT !.hash = SHA256(JSONstringifyBlock(b2))]
    IN IF failAt = 0
       THEN [chain |-> Append(c, b2), value |-> DigestError, newBlock |-> b2,
             failed |-> TRUE]
       ELSE addBlockPushed(c, b3, failAt)

\* _addBlock(newBlock) when the clock reads t: the chain afterwards, the
\* value returned, the object newBlock as the call leaves it, and whether the
\* catch was taken.  this.height is not assigned anywhere.
_addBlock(c, newBlock, t, failAt) ==
    LET b1 == [newBlock EXCEPT !.height = Len(c), !.time = t]
        b2 == IF Len(c) > 0
              THEN [b1 EXCEPT !.previousBlockHash = c[Len(c)].hash]
              ELSE b1
        b3 == [b2 EXCEPT !.hash = SHA256(JSONstringifyBlock(b2))]
    IN IF failAt = 0
       THEN [chain |-> c, value |-> DigestError, newBlock |-> b2, failed |-> TRUE]
       ELSE addBlockPushed(c, b3, failAt)

\* The challenge message "<address>:<date>:starRegistry" as the list of its
\* colon-separated fields.  The date field is <<n>> for the decimal digits
\* of n and <<>> for text that is not a number.
Message(address, date) == <<address, date, "starRegistry">>

split(message) == message

\* parseInt of a date field: NaN is <<>>.
parseInt(field) == field

\* requestMessageOwnershipVerification(address) when the clock reads t
requestMessageOwnershipVerification(address, t) == Message(address, <<t>>)

\* A signature is who signed and what was signed; Malformed is a string that
\* is not a signature at all.
Sign(signer, message) == [signer |-> signer, message |-> message]
Malformed == [signer |-> "nobody", message |-> <<>>]

\* bitcoinMessage.verify(message, address, signature): true or false, or an
\* exception for a string that cannot be decoded as a signature.
bitcoinMessageVerify(message, address, signature) ==
    IF signature = Malformed THEN [threw |-> TRUE, value |-> FALSE]
    ELSE [threw |-> FALSE,
          value |-> (signature.signer = address /\ signature.message = message)]

\* the freshness test with <= in place of <
isTimeLessThanFiveMin_inclusive(currentTime, messageTime) ==
    /\ messageTime # <<>>
    /\ currentTime - messageTime[1] <= 5 * 60

\* isTimeLessThanFiveMin in submitStar: a comparison with NaN is false.
isTimeLessThanFiveMin(currentTime, messageTime) ==
    /\ messageTime # <<>>
    /\ currentTime - messageTime[1] < 5 * 60

\* ---------------------------------------------------------------- state
Undefined == [kind |-> "undefined"]

\* no validateChain call is suspended
Idle == [status |-> "idle"]
NoTasks == [k \in 1..MaxTasks |-> Idle]

\* new Blockchain(): the constructor runs initializeChain up to its first
\* await, which is after the genesis block has been pushed.
Init ==
    /\ chain = _addBlock(<<>>, Block(GenesisData, 0), StartTime, NoFault).chain
    /\ height = -1
    /\ now = StartTime
    /\ nextRef = 1
    /\ tampers = 0
    /\ last = [op |-> "constructor", args |-> <<>>, out |-> Undefined]
    /\ tasks = NoTasks

\* The clock advances.
Tick ==
    /\ now < StartTime + MaxTicks
    /\ now' = now + 1
    /\ UNCHANGED <<chain, height, nextRef, tampers, last, tasks>>

\* initializeChain(), with digest computation failAt throwing
initializeChain(failAt) ==
    /\ height = -1 => Len(chain) < MaxChain
    /\ IF height = -1
       THEN LET added == _addBlock(chain, Block(GenesisData, nextRef), now, failAt)
            IN /\ chain' = added.chain
               /\ nextRef' = nextRef + 1
               /\ last' = [op |-> "initializeChain", args |-> <<>>, out |-> Undefined,
                           addBlockFailed |-> added.failed]
       ELSE /\ UNCHANGED <<chain, nextRef>>
            /\ last' = [op |-> "initializeChain", args |-> <<>>, out |-> Undefined]
    /\ UNCHANGED <<height, now, tampers, tasks>>

\* getChainHeight()
getChainHeight ==
    /\ last' = [op |-> "getChainHeight", args |-> <<>>,
                out |-> [kind |-> "resolved", value |-> height]]
    /\ UNCHANGED <<chain, height, now, nextRef, tampers, tasks>>

\* submitStar(address, message, signature, star), with digest computation
\* failAt throwing.  The value of _addBlock is not looked at: newBlock is
\* returned whatever _addBlock returned.
submitStar(address, message, signature, star, failAt) ==
    LET messageTime == parseInt(split(message)[2])
        currentTime == now
        timeOk == isTimeLessThanFiveMin(currentTime, messageTime)
        isSignatureVerified == bitcoinMessageVerify(message, address, signature)
        data == [address |-> address, message |-> message,
                 signature |-> signature, star |-> star]
        added == _addBlock(chain, Block(data, nextRef), now, failAt)
        args == <<address, message, signature, star>>
    IN /\ (~isSignatureVerified.threw /\ timeOk /\ isSignatureVerified.value)
              => Len(chain) < MaxChain
       /\ IF isSignatureVerified.threw
          THEN /\ last' = [op |-> "submitStar", args |-> args,
                           out |-> [kind |-> "rejected", value |-> [error |-> "verify"]]]
               /\ UNCHANGED <<chain, nextRef>>
          ELSE IF timeOk /\ isSignatureVerified.value
          THEN /\ chain' = added.chain
               /\ nextRef' = nextRef + 1
               /\ last' = [op |-> "submitStar", args |-> args,
                           out |-> [kind |-> "block", value |-> added.newBlock],
                           addBlockFailed |-> added.failed]
          ELSE /\ last' = [op |-> "submitStar", args |-> args,
                           out |-> [kind |-> "invalid request",
                                    identity |-> isSignatureVerified.value,
                                    time |-> timeOk]]
               /\ UNCHANGED <<chain, nextRef>>
       /\ UNCHANGED <<height, now, tampers, tasks>>

\* validateChain(), with digest computation failAt throwing
ValidateChain(failAt) ==
    /\ chain' = validateChain(chain, failAt).chain
    /\ last' = [op |-> "validateChain", args |-> <<>>,
                out |-> validateChain(chain, failAt).value]
    /\ UNCHANGED <<height, now, nextRef, tampers, tasks>>

\* requestMessageOwnershipVerification(address)
RequestMessageOwnershipVerification(address) ==
    /\ last' = [op |-> "requestMessageOwnershipVerification", args |-> <<address>>,
                out |-> [kind |-> "resolved",
                         value |-> requestMessageOwnershipVerification(address, now)]]
    /\ UNCHANGED <<chain, height, now, nextRef, tampers, tasks>>

\* getBlockByHash comparing the wrong field
getBlockByHash_previous(hash) ==
    LET filteredBlock == SelectSeq(chain, LAMBDA block : block.previousBlockHash = hash)
    IN /\ last' = [op |-> "getBlockByHash", args |-> <<hash>>,
                   out |-> IF Len(filteredBlock) > 0
                           THEN [kind |-> "resolved", value |-> filteredBlock[1]]
                           ELSE [kind |-> "rejected",
                                 value |-> [error |-> "No block with that hash"]]]
       /\ UNCHANGED <<chain, height, now, nextRef, tampers, tasks>>

\* getBlockByHash(hash)
getBlockByHash(hash) ==
    LET filteredBlock == SelectSeq(chain, LAMBDA block : block.hash = hash)
    IN /\ last' = [op |-> "getBlockByHash", args |-> <<hash>>,
                   out |-> IF Len(filteredBlock) > 0
                           THEN [kind |-> "resolved", value |-> filteredBlock[1]]
                           ELSE [kind |-> "rejected",
                                 value |-> [error |-> "No block with that hash"]]]
       /\ UNCHANGED <<chain, height, now, nextRef, tampers, tasks>>

\* getBlockByHeight(height)
getBlockByHeight(h) ==
    LET found == SelectSeq(chain, LAMBDA p : p.height = h)
    IN /\ last' = [op |-> "getBlockByHeight", args |-> <<h>>,
                   out |-> IF Len(found) > 0
                           THEN [kind |-> "resolved", value |-> found[1]]
                           ELSE [kind |-> "null"]]
       /\ UNCHANGED <<chain, height, now, nextRef, tampers, tasks>>

\* the loop of getStarsByWalletAddress over starBlocks, with stars so far
RECURSIVE getStarsLoop(_, _, _)
getStarsLoop(starBlocks, address, stars) ==
    IF starBlocks = <<>> THEN [kind |-> "stars", value |-> stars]
    ELSE LET starBlockData == getBData(Head(starBlocks))
         IN IF starBlockData.kind = "rejected"
            THEN [kind |-> "error", value |-> starBlockData.value]
            ELSE IF /\ "address" \in DOMAIN starBlockData.value
                    /\ starBlockData.value.address = address
                 THEN getStarsLoop(Tail(starBlocks), address,
                                   Append(stars, [owner |-> starBlockData.value.address,
                                                  star |-> starBlockData.value.star]))
                 ELSE getStarsLoop(Tail(starBlocks), address, stars)

\* getStarsByWalletAddress over the whole chain, without slice(1)
getStarsByWalletAddress_noSlice(address) ==
    /\ last' = [op |-> "getStarsByWalletAddress", args |-> <<address>>,
                out |-> getStarsLoop(chain, address, <<>>)]
    /\ UNCHANGED <<chain, height, now, nextRef, tampers, tasks>>

\* getStarsByWalletAddress(address)
getStarsByWalletAddress(address) ==
    /\ last' = [op |-> "getStarsByWalletAddress", args |-> <<address>>,
                out |-> getStarsLoop(Tail(chain), address, <<>>)]
    /\ UNCHANGED <<chain, height, now, nextRef, tampers, tasks>>

\* ------------------------------------------------- external modification
\* A digest that is the hash of no block of the chain.
ForgedHash == SHA256(JSONstringifyBlock(Block([data |-> "forged"], 0)))

\* a body that is not the hex encoding of any JSON text
GarbageBody == [hex |-> [raw |-> "garbage"]]

\* the values somebody outside the application may write into a field of
\* block b
TamperValues(field, b) ==
    CASE field = "hash" -> {Null, ForgedHash}
      [] field = "previousBlockHash" -> {Null, ForgedHash}
      [] field = "height" -> {b.height + 1}
      [] field = "time" -> {b.time + 1}
      [] field = "body" ->
             {GarbageBody, BufferToHex(JSONstringifyData([data |-> "forged"]))}

BlockFields == {"hash", "height", "body", "time", "previousBlockHash"}

\* Somebody writes value into one field of the block at JavaScript index k.
Tamper(k, field, value) ==
    /\ tampers < MaxTamper
    /\ k < Len(chain)
    /\ value # chain[k + 1][field]
    /\ chain' = [chain EXCEPT ![k + 1][field] = value]
    /\ tampers' = tampers + 1
    /\ last' = [op |-> "tamper", args |-> <<k, field>>, out |-> Undefined]
    /\ UNCHANGED <<height, now, nextRef, tasks>>

\* the messages and signatures a caller may hold when the clock reads t
Messages(address, t) == {Message(address, <<t - e>>) : e \in Elapsed}

Signatures(message) == {Sign(a, message) : a \in Addresses} \cup {Malformed}

Next ==
    \/ Tick
    \/ initializeChain(NoFault)
    \/ getChainHeight
    \/ \E address \in Addresses, star \in Stars :
         \E message \in Messages(address, now) :
           \E signature \in Signatures(message) :
             submitStar(address, message, signature, star, NoFault)
    \/ ValidateChain(NoFault)
    \/ \E address \in Addresses : RequestMessageOwnershipVerification(address)
    \/ \E hash \in {ForgedHash} \cup {chain[j].hash : j \in 1..Len(chain)} :
         getBlockByHash(hash)
    \/ \E h \in 0..MaxChain : getBlockByHeight(h)
    \/ \E address \in Addresses : getStarsByWalletAddress(address)

Spec == Init /\ [][Next]_vars

\* The same application with somebody outside it modifying stored blocks.
NextTamper ==
    \/ Next
    \/ \E k \in 0..(Len(chain) - 1), field \in BlockFields :
         \E value \in TamperValues(field, chain[k + 1]) : Tamper(k, field, value)

SpecTamper == Init /\ [][NextTamper]_vars

\* the star submitted in the specifications of faults, where the payload
\* plays no part
FaultStars == {<<83>>}

\* Registrations and the scan for stars, with somebody outside the
\* application overwriting block bodies.
NextCorrupt ==
    \/ Tick
    \/ initializeChain(NoFault)
    \/ \E address \in Addresses, star \in FaultStars :
         \E message \in Messages(address, now) :
           submitStar(address, message, Sign(address, message), star, NoFault)
    \/ \E k \in 0..(Len(chain) - 1) :
         \E value \in TamperValues("body", chain[k + 1]) : Tamper(k, "body", value)
    \/ \E address \in Addresses : getStarsByWalletAddress(address)

SpecCorrupt == Init /\ [][NextCorrupt]_vars

\* the digest computations that may throw in a call that makes n of them
Faults(n) == {NoFault} \cup 0..(n - 1)

\* the digest failures so far: each left a Block object that was not
\* appended, or a block of the chain whose hash was not restored
FaultsSoFar ==
    (nextRef - Len(chain)) + Cardinality({i \in 1..Len(chain) : chain[i].hash = Null})

\* The calls that compute digests, with a digest dependency that may throw:
\* in a call, any one of the SHA256 computations it makes may be the one
\* that throws.  An append computes the digest of the new block and then
\* validates every block of the chain.
NextFault ==
    \/ Tick
    \/ \E failAt \in Faults(Len(chain) + 2) :
         /\ failAt # NoFault => FaultsSoFar < MaxFaults
         /\ initializeChain(failAt)
    \/ \E address \in Addresses, star \in FaultStars :
         \E message \in Messages(address, now), failAt \in Faults(Len(chain) + 2) :
           /\ failAt # NoFault => FaultsSoFar < MaxFaults
           /\ submitStar(address, message, Sign(address, message), star, failAt)
    \/ \E failAt \in Faults(Len(chain)) :
         /\ failAt # NoFault => FaultsSoFar < MaxFaults
         /\ ValidateChain(failAt)

SpecFault == Init /\ [][NextFault]_vars

\* ------------------------------------------------ calls that interleave
\* A call that has been started and has not returned is suspended at
\* validateChain's await of validate() (part_000:277): the index i of the
\* block, the value isBlockValid the promise holds, chainValidation so far,
\* the length of the chain when validateChain was entered and, in an append,
\* the index of the block that was pushed.
NewTask(op, args, c, newBlockAt) ==
    [status |-> "suspended", op |-> op, args |-> args, i |-> 0,
     isBlockValid |-> TRUE,
     chainValidation |-> [kind |-> "report", isChainValid |-> TRUE, errorLog |-> <<>>],
     lengthAtCall |-> Len(c), newBlockAt |-> newBlockAt]

\* _addBlock's statements up to the push (part_000:69-77), none of which
\* awaits: the chain after them
appendSteps(c, newBlock, t) ==
    LET b1 == [newBlock EXCEPT !.height = Len(c), !.time = t]
        b2 == IF Len(c) > 0
              THEN [b1 EXCEPT !.previousBlockHash = c[Len(c)].hash]
              ELSE b1
        b3 == [b2 EXCEPT !.hash = SHA256(JSONstringifyBlock(b2))]
    IN Append(c, b3)

\* the test of the for statement with the length read when validateChain
\* was entered
validateChainTest_lengthAtCall(c, t) ==
    IF t.i < t.lengthAtCall
    THEN LET v == validate(c[t.i + 1], FALSE)
         IN [done |-> FALSE, chain |-> [c EXCEPT ![t.i + 1] = v.block],
             task |-> [t EXCEPT !.isBlockValid = v.value]]
    ELSE [done |-> TRUE, chain |-> c, task |-> t]

\* The test of validateChain's for statement (part_000:270) in call t, which
\* reads the length of the chain as it is now: either validate() of block i
\* runs, in the promise's executor, and the call is suspended at the await,
\* or the loop exits.
validateChainTest(c, t) ==
    IF t.i < Len(c)
    THEN LET v == validate(c[t.i + 1], FALSE)
         IN [done |-> FALSE, chain |-> [c EXCEPT ![t.i + 1] = v.block],
             task |-> [t EXCEPT !.isBlockValid = v.value]]
    ELSE [done |-> TRUE, chain |-> c, task |-> t]

\* The rest of the loop body once the await has yielded isBlockValid
\* (part_000:278-292), reading the chain as it is now.
validateChainBody(c, t) ==
    LET blockErrors == [blockHeight |-> t.i,
                        isBlockValid |-> IF t.isBlockValid # TRUE THEN "false" ELSE "null",
                        isPreviousHashValid |-> "null"]
        cv1 == IF t.isBlockValid # TRUE
               THEN [t.chainValidation EXCEPT !.isChainValid = FALSE]
               ELSE t.chainValidation
        isPreviousHashValid ==
            IF t.i > 0 THEN c[t.i + 1].previousBlockHash = c[t.i].hash ELSE TRUE
    IN IF isPreviousHashValid # TRUE
       THEN [threw |-> TRUE, task |-> t]
       ELSE [threw |-> FALSE,
             task |-> [t EXCEPT !.i = @ + 1,
                                !.chainValidation =
                                    [cv1 EXCEPT !.errorLog = Append(@, blockErrors)]]]

\* What call t leaves behind when its validateChain has returned value:
\* validateChain returns it, _addBlock logs it (part_000:79) and its callers
\* return the new block (part_000:161) or nothing (part_000:39).  The awaits
\* of _addBlock and of its callers touch no state and are not steps.
Returned(t, value, c) ==
    [op |-> t.op, args |-> t.args,
     out |-> CASE t.op = "validateChain" -> value
               [] t.op = "submitStar" -> [kind |-> "block", value |-> c[t.newBlockAt + 1]]
               [] t.op = "initializeChain" -> Undefined,
     newChainValidation |-> value, lengthAtCall |-> t.lengthAtCall]

\* the slot a call that starts now is kept in
FreeSlot(k) == tasks[k] = Idle /\ \A j \in 1..(k - 1) : tasks[j] # Idle

\* validateChain is entered by call t0 with the chain being c
EnterValidateChain(k, t0, c) ==
    LET r == validateChainTest(c, t0)
    IN /\ chain' = r.chain
       /\ IF r.done
          THEN /\ last' = Returned(r.task, r.task.chainValidation, r.chain)
               /\ UNCHANGED tasks
          ELSE /\ tasks' = [tasks EXCEPT ![k] = r.task]
               /\ UNCHANGED last

\* new Blockchain() with the event loop in view: initializeChain() is
\* suspended in the validateChain of the genesis append
InitAsync ==
    /\ chain = appendSteps(<<>>, Block(GenesisData, 0), StartTime)
    /\ height = -1
    /\ now = StartTime
    /\ nextRef = 1
    /\ tampers = 0
    /\ last = [op |-> "constructor", args |-> <<>>, out |-> Undefined]
    /\ tasks = [NoTasks EXCEPT
                  ![1] = validateChainTest(chain,
                             NewTask("initializeChain", <<>>, chain, 0)).task]

\* validateChain() is called
StartValidateChain(k) ==
    /\ FreeSlot(k)
    /\ EnterValidateChain(k, NewTask("validateChain", <<>>, chain, -1), chain)
    /\ UNCHANGED <<height, now, nextRef, tampers>>

\* initializeChain() is called
StartInitializeChain(k) ==
    /\ FreeSlot(k)
    /\ height = -1 => Len(chain) < MaxChain
    /\ IF height = -1
       THEN LET c1 == appendSteps(chain, Block(GenesisData, nextRef), now)
            IN /\ EnterValidateChain(k, NewTask("initializeChain", <<>>, c1, Len(chain)), c1)
               /\ nextRef' = nextRef + 1
       ELSE /\ last' = [op |-> "initializeChain", args |-> <<>>, out |-> Undefined]
            /\ UNCHANGED <<chain, nextRef, tasks>>
    /\ UNCHANGED <<height, now, tampers>>

\* submitStar(address, message, signature, star) is called
StartSubmitStar(k, address, message, signature, star) ==
    LET messageTime == parseInt(split(message)[2])
        timeOk == isTimeLessThanFiveMin(now, messageTime)
        isSignatureVerified == bitcoinMessageVerify(message, address, signature)
        data == [address |-> address, message |-> message,
                 signature |-> signature, star |-> star]
        args == <<address, message, signature, star>>
        c1 == appendSteps(chain, Block(data, nextRef), now)
    IN /\ FreeSlot(k)
       /\ (~isSignatureVerified.threw /\ timeOk /\ isSignatureVerified.value)
              => Len(chain) < MaxChain
       /\ IF isSignatureVerified.threw
          THEN /\ last' = [op |-> "submitStar", args |-> args,
                           out |-> [kind |-> "rejected", value |-> [error |-> "verify"]]]
               /\ UNCHANGED <<chain, nextRef, tasks>>
          ELSE IF timeOk /\ isSignatureVerified.value
          THEN /\ EnterValidateChain(k, NewTask("submitStar", args, c1, Len(chain)), c1)
               /\ nextRef' = nextRef + 1
          ELSE /\ last' = [op |-> "submitStar", args |-> args,
                           out |-> [kind |-> "invalid request",
                                    identity |-> isSignatureVerified.value,
                                    time |-> timeOk]]
               /\ UNCHANGED <<chain, nextRef, tasks>>
       /\ UNCHANGED <<height, now, tampers>>

\* The call in slot k is resumed after its await: the rest of the loop body,
\* then the test of the loop, up to the next await or to the return.
Resume(k) ==
    /\ tasks[k] # Idle
    /\ LET body == validateChainBody(chain, tasks[k])
           r == validateChainTest(chain, body.task)
       IN IF body.threw
          THEN /\ last' = Returned(tasks[k], ReferenceError, chain)
               /\ tasks' = [tasks EXCEPT ![k] = Idle]
               /\ UNCHANGED chain
          ELSE /\ chain' = r.chain
               /\ IF r.done
                  THEN /\ last' = Returned(r.task, r.task.chainValidation, r.chain)
                       /\ tasks' = [tasks EXCEPT ![k] = Idle]
                  ELSE /\ tasks' = [tasks EXCEPT ![k] = r.task]
                       /\ UNCHANGED last
    /\ UNCHANGED <<height, now, nextRef, tampers>>

\* the caller of the calls that interleave, whose identity plays no part
AsyncCallers == {"addrA"}

\* the message a caller holds that was issued less than five minutes before
\* the clock reads t
FreshMessages(address, t) == {m \in Messages(address, t) : isTimeLessThanFiveMin(t, m[2])}

\* Calls are started while others are suspended, and suspended calls are
\* resumed in any order.  The calls that interleave are started within one
\* second.
NextAsync ==
    \/ \E k \in 1..MaxTasks : StartValidateChain(k)
    \/ \E k \in 1..MaxTasks : StartInitializeChain(k)
    \/ \E k \in 1..MaxTasks, address \in AsyncCallers, star \in FaultStars :
         \E message \in FreshMessages(address, now) :
           StartSubmitStar(k, address, message, Sign(address, message), star)
    \/ \E k \in 1..MaxTasks : Resume(k)

SpecAsync == InitAsync /\ [][NextAsync]_vars

\* the length the chain may reach in the specification of the calls that
\* are resumed
MaxFairChain == 2

\* Validations and registrations on a chain that stays short.
NextAsyncFair ==
    \/ \E k \in 1..MaxTasks : StartValidateChain(k)
    \/ \E k \in 1..MaxTasks, address \in AsyncCallers, star \in FaultStars :
         \E message \in FreshMessages(address, now) :
           /\ Len(chain) < MaxFairChain
           /\ StartSubmitStar(k, address, message, Sign(address, message), star)
    \/ \E k \in 1..MaxTasks : Resume(k)

\* The continuation of an await on a settled promise is a microtask, and
\* the microtask queue is run until it is empty: a suspended call is
\* resumed.
SpecAsyncFair ==
    InitAsync /\ [][NextAsyncFair]_vars /\ \A k \in 1..MaxTasks : WF_vars(Resume(k))

\* ------------------------------------------------------------ properties
IsPrefix(s, t) == Len(s) <= Len(t) /\ \A i \in 1..Len(s) : t[i] = s[i]

\* the report of a chain of n blocks in which nothing was found
CleanReport(n) ==
    [kind |-> "report", isChainValid |-> TRUE,
     errorLog |-> [i \in 1..n |-> [blockHeight |-> i - 1, isBlockValid |-> "null",
                                   isPreviousHashValid |-> "null"]]]

IsGenesisBody(b) == JSONparse(hex2ascii(b.body)) = [ok |-> TRUE, value |-> GenesisData]

\* C1: without external modification, every block after the first stores
\* the hash of the block before it as its previousBlockHash.
C1_Linkage ==
    \A i \in 2..Len(chain) : chain[i].previousBlockHash = chain[i - 1].hash

\* a chain that grew by initializeChain and by submitStar
C1_Witness ==
    /\ Len(chain) >= 3
    /\ \E i \in 2..Len(chain) : IsGenesisBody(chain[i])
    /\ last.op = "submitStar" /\ last.out.kind = "block"

\* C2: when the previousBlockHash of a block at height k > 0 differs from the
\* hash of the block before it, validateChain returns a report that is not
\* valid and has a previous-hash finding at height k.
C2_LinkageBreakReported ==
    last.op = "validateChain" =>
        \A k \in 1..(Len(chain) - 1) :
            chain[k + 1].previousBlockHash # chain[k].hash =>
                /\ last.out.kind = "report"
                /\ last.out.isChainValid = FALSE
                /\ Len(last.out.errorLog) > k
                /\ last.out.errorLog[k + 1].isPreviousHashValid = "false"

\* C3: the cached height is the index of the last block, and getChainHeight
\* never resolves with -1.
C3_HeightIsLastIndex ==
    /\ height = Len(chain) - 1
    /\ last.op = "getChainHeight" => last.out.value # -1

\* C4: initializeChain on a chain that already holds a block leaves the
\* chain as it was.
C4_InitializeIdempotent ==
    [][(initializeChain(NoFault) /\ Len(chain) >= 1) => chain' = chain]_vars

\* C5: the first block is always the genesis block: payload
\* {data: "Genesis Block"}, height 0, previousBlockHash null, and getBData
\* on it rejects.
C5_GenesisFirst ==
    /\ Len(chain) >= 1
    /\ IsGenesisBody(chain[1])
    /\ chain[1].height = 0
    /\ chain[1].previousBlockHash = Null
    /\ getBData(chain[1]).kind = "rejected"

\* a chain with blocks added by later initializeChain and submitStar calls
C5_Witness ==
    /\ Len(chain) >= 3
    /\ \E i \in 2..Len(chain) : IsGenesisBody(chain[i])
    /\ \E i \in 2..Len(chain) : ~IsGenesisBody(chain[i])

RefsUnique ==
    \A i, j \in 1..Len(chain) : chain[i].ref = chain[j].ref => i = j

HeightIsIndex == \A i \in 1..Len(chain) : chain[i].height = i - 1

\* C6: the chain only grows at its end: every step keeps the blocks it had,
\* field by field, no Block object is in the chain twice, and the block at
\* index i has height i.
C6_AppendOnly ==
    /\ RefsUnique /\ HeightIsIndex
    /\ [][IsPrefix(chain, chain') /\ RefsUnique' /\ HeightIsIndex']_vars

\* a full chain on which validateChain or a lookup has just run
C6_Witness ==
    /\ Len(chain) >= 3
    /\ last.op \in {"validateChain", "getBlockByHash", "getBlockByHeight",
                    "getStarsByWalletAddress"}

\* C7: whatever was done to the stored blocks, validateChain returns a
\* report with one entry per block, in order of height.
C7_ReportPerBlock ==
    last.op = "validateChain" =>
        /\ last.out.kind = "report"
        /\ Len(last.out.errorLog) = Len(chain)
        /\ \A i \in 1..Len(chain) : last.out.errorLog[i].blockHeight = i - 1

\* C8: right after one field of the block at height k was changed, validate
\* of that block is false and validateChain returns a report that is not
\* valid and has a block finding at height k.
C8_TamperReported ==
    last.op = "tamper" =>
        LET k == last.args[1]
            report == validateChain(chain, NoFault).value
        IN /\ validate(chain[k + 1], FALSE).value = FALSE
           /\ report.kind = "report"
           /\ report.isChainValid = FALSE
           /\ report.errorLog[k + 1].isBlockValid = "false"

\* C9: without external modification every block of the chain validates,
\* and validateChain reports a valid chain with no finding.
C9_AppendedBlocksValidate ==
    /\ \A i \in 1..Len(chain) : validate(chain[i], FALSE).value = TRUE
    /\ validateChain(chain, NoFault).value = CleanReport(Len(chain))
    /\ last.op = "validateChain" => last.out = CleanReport(Len(chain))

\* validateChain has run on a chain with appended blocks
C9_Witness ==
    /\ Len(chain) >= 3
    /\ last.op = "validateChain"
    /\ \E i \in 2..Len(chain) : ~IsGenesisBody(chain[i])

\* C10: with a valid signature, submitStar appends a block exactly when the
\* clock minus the time in the message is below 300 seconds; otherwise it
\* reports that the time verification failed and appends nothing.
C10_FreshnessBoundary ==
    [][last'.op = "submitStar" =>
         LET address == last'.args[1]
             message == last'.args[2]
             signature == last'.args[3]
             star == last'.args[4]
         IN (/\ signature = Sign(address, message)
             /\ message[2] # <<>>
             /\ submitStar(address, message, signature, star, NoFault))
            => IF now - message[2][1] < 300
               THEN /\ Len(chain') = Len(chain) + 1
                    /\ last'.out.kind = "block"
               ELSE /\ chain' = chain
                    /\ last'.out.kind = "invalid request"
                    /\ last'.out.time = FALSE]_vars

\* a message 299 seconds old was accepted and its block appended
C10_Witness ==
    /\ last.op = "submitStar"
    /\ last.out.kind = "block"
    /\ last.out.value.time - last.args[2][2][1] = 299
    /\ chain[Len(chain)] = last.out.value

\* C13: Block.validate leaves the block as it found it on every exit, also
\* when the digest computation throws: a validateChain call changes no field
\* of any block.
C13_ValidateRestores ==
    [][(\E failAt \in Faults(Len(chain)) : ValidateChain(failAt)) => chain' = chain]_vars

\* the call made _addBlock take its catch
AppendFailed(l) == "addBlockFailed" \in DOMAIN l /\ l.addBlockFailed

\* C14: submitStar does not return a Block when _addBlock failed, and a
\* Block it returns is in the chain at the index that is its height.
C14_FailureReported ==
    last.op = "submitStar" =>
        /\ AppendFailed(last) => last.out.kind # "block"
        /\ last.out.kind = "block" =>
              /\ last.out.value.height < Len(chain)
              /\ chain[last.out.value.height + 1] = last.out.value

\* C18: a call in which _addBlock fails leaves the chain as it was: nothing
\* pushed, no block changed.
C18_FailedAppendLeavesChain ==
    [][AppendFailed(last') => chain' = chain]_vars

\* an append has failed on a chain that holds appended blocks
C18_Witness ==
    /\ AppendFailed(last)
    /\ last.op = "submitStar"
    /\ Len(chain) >= 2

\* the step is the call submitStar(l.args) returning l.out
IsSubmitStar(l) ==
    /\ l.op = "submitStar"
    /\ submitStar(l.args[1], l.args[2], l.args[3], l.args[4], NoFault)

\* the two checks of a registration, as the caller understands them
IsFresh(message, t) == message[2] # <<>> /\ t - message[2][1] < 300
IsSignedBy(signature, address, message) == signature = Sign(address, message)

\* C11: submitStar appends a block exactly when the message is fresh and
\* the signature is valid; then the chain grows by the returned block alone,
\* and the payload decoded from that block is {address, message, signature,
\* star}; otherwise the chain stays as it was.
C11_RegistrationAppends ==
    [][IsSubmitStar(last') =>
         LET address == last'.args[1]
             message == last'.args[2]
             signature == last'.args[3]
             star == last'.args[4]
         IN IF IsFresh(message, now) /\ IsSignedBy(signature, address, message)
            THEN /\ last'.out.kind = "block"
                 /\ chain' = Append(chain, last'.out.value)
                 /\ getBData(last'.out.value) =
                        [kind |-> "resolved",
                         value |-> [address |-> address, message |-> message,
                                    signature |-> signature, star |-> star]]
            ELSE /\ last'.out.kind # "block"
                 /\ chain' = chain]_vars

\* C12: a submitStar call that does not register tells, each on its own,
\* whether the time check failed and whether the signature check failed,
\* also when bitcoinMessage.verify throws.
C12_RejectionDiscloses ==
    [][(IsSubmitStar(last') /\ last'.out.kind # "block") =>
         /\ last'.out.kind = "invalid request"
         /\ last'.out.time = IsFresh(last'.args[2], now)
         /\ last'.out.identity =
                IsSignedBy(last'.args[3], last'.args[1], last'.args[2])]_vars

\* the payload read from the body of block b, when it can be read
Decoded(b) == JSONparse(hex2ascii(b.body))

IsOwnedBy(b, address) ==
    /\ Decoded(b).ok
    /\ "address" \in DOMAIN Decoded(b).value
    /\ Decoded(b).value.address = address

\* the {owner, star} pairs of the blocks after the first that address owns,
\* in the order of the chain
OwnedStars(c, address) ==
    LET owned == SelectSeq(Tail(c), LAMBDA b : IsOwnedBy(b, address))
    IN [i \in 1..Len(owned) |-> [owner |-> address, star |-> Decoded(owned[i]).value.star]]

\* C15: getStarsByWalletAddress returns one {owner, star} pair for every
\* block after the first whose decoded payload has the queried address, in
\* chain order, and nothing else; the chain stays as it was.
C15_StarsOwnedBy ==
    [][(/\ last'.op = "getStarsByWalletAddress"
        /\ getStarsByWalletAddress(last'.args[1]))
       => /\ chain' = chain
          /\ last'.out = [kind |-> "stars", value |-> OwnedStars(chain, last'.args[1])]]_vars

\* a scan that returned a pair and passed over a block of somebody else
C15_Witness ==
    /\ last.op = "getStarsByWalletAddress"
    /\ last.out.kind = "stars"
    /\ Len(chain) >= 3
    /\ Len(last.out.value) >= 1
    /\ Len(last.out.value) < Len(chain) - 1

\* a block after the first has a body that cannot be decoded
HasCorruptBody(c) == \E i \in 2..Len(c) : ~Decoded(c[i]).ok

\* C16: when the body of a block after the first cannot be decoded,
\* getStarsByWalletAddress yields the error for every address, never a
\* list of pairs.
C16_CorruptBodyFailsScan ==
    HasCorruptBody(chain) =>
        /\ \A address \in Addresses :
              getStarsLoop(Tail(chain), address, <<>>).kind = "error"
        /\ last.op = "getStarsByWalletAddress" => last.out.kind = "error"

\* a scan has run on a chain whose last block is corrupt and whose second
\* block belongs to the queried address
C16_Witness ==
    /\ last.op = "getStarsByWalletAddress"
    /\ Len(chain) >= 3
    /\ ~Decoded(chain[3]).ok
    /\ IsOwnedBy(chain[2], last.args[1])

\* C17: getBlockByHash resolves with the one block whose hash is the
\* argument when there is such a block, rejects when there is none, and
\* leaves the chain as it was.
C17_FindByHash ==
    [][(last'.op = "getBlockByHash" /\ getBlockByHash(last'.args[1])) =>
         LET matches == {i \in 1..Len(chain) : chain[i].hash = last'.args[1]}
         IN /\ chain' = chain
            /\ IF matches # {}
               THEN /\ Cardinality(matches) = 1
                    /\ last'.out = [kind |-> "resolved",
                                    value |-> chain[CHOOSE i \in matches : TRUE]]
               ELSE last'.out.kind = "rejected"]_vars

\* a lookup found a block that has a successor
C17_Witness ==
    /\ last.op = "getBlockByHash"
    /\ last.out.kind = "resolved"
    /\ Len(chain) >= 3
    /\ last.out.value = chain[2]

\* C19: with calls interleaving at their awaits, every block of the chain has
\* at every moment a hash, its index as height and the hash of the block
\* before it as previousBlockHash (none for the first block).
C19_AppendIsAtomic ==
    \A j \in 1..Len(chain) :
        /\ chain[j].hash # Null
        /\ chain[j].height = j - 1
        /\ chain[j].previousBlockHash = IF j > 1 THEN chain[j - 1].hash ELSE Null

\* two appends are suspended at the same time
C19_Witness ==
    /\ Len(chain) >= 3
    /\ \E j, k \in 1..MaxTasks :
         /\ j # k
         /\ tasks[j] # Idle /\ tasks[j].op = "submitStar"
         /\ tasks[k] # Idle /\ tasks[k].op \in {"submitStar", "initializeChain"}

\* the report has one entry per block of chain c, by ascending height
IsReportOf(value, c) ==
    /\ value.kind = "report"
    /\ Len(value.errorLog) = Len(c)
    /\ \A j \in 1..Len(c) : value.errorLog[j].blockHeight = j - 1

\* C20: a validateChain call that is suspended returns, and when it returns
\* its report has one entry for every block the chain has then, by ascending
\* height, the blocks appended during the call included.
C20_ReportCoversAppended ==
    /\ [][\A k \in 1..MaxTasks :
            (Resume(k) /\ tasks'[k] = Idle)
                => IsReportOf(last'.newChainValidation, chain')]_vars
    /\ \A k \in 1..MaxTasks : (tasks[k] # Idle) ~> (tasks[k] = Idle)

\* a validateChain call has returned a report with more entries than the
\* chain had blocks when it was called
C20_Witness ==
    /\ last.op = "validateChain"
    /\ "lengthAtCall" \in DOMAIN last
    /\ last.out.kind = "report"
    /\ Len(last.out.errorLog) > last.lengthAtCall
    /\ Len(last.out.errorLog) = Len(chain)
====
